---- MODULE Spec2Model ----
(***************************************************************************)
(* State-machine model of src/lib/client.js: the RealtimeClient            *)
(* orchestrator driving the RealtimeWebRTC transport in a browser-like     *)
(* environment (globalThis.document set, transport = 'webrtc').            *)
(*                                                                         *)
(* JavaScript runs to completion between awaits, so every action below is  *)
(* one synchronous run: a public call up to its first await, or the        *)
(* continuation of an await, a timer callback or a browser event handler.  *)
(***************************************************************************)
EXTENDS Integers, Sequences, FiniteSets, TLC

\* ------------------------------------------------------------------ bounds
\* connect() attempts a client can make in all; attempt a creates the browser
\* objects (peer connection, data channel, microphone stream) numbered a.
MaxAttempts == 2
\* connect() attempts made in one behaviour, except where reconnecting is
\* the subject
MaxConnects == 1
\* events written to data channels in one behaviour
MaxSent == 3
\* remote audio tracks the peer adds in one behaviour; the n-th one gets the
\* Audio element numbered n
MaxTracks == 2
\* function-call items the peer completes in one behaviour
MaxToolCalls == 2

Attempts == 1..MaxAttempts
Sinks == 1..MaxTracks
ToolCalls == 1..MaxToolCalls

\* --------------------------------------------------------------- JS values
\* Every JavaScript value of the model is a tagged record, so that null, a
\* string and an array stay distinguishable (and comparable).
Null == [t |-> "null", v |-> <<>>]
Str(s) == [t |-> "string", v |-> <<s>>]
Num(s) == [t |-> "number", v |-> <<s>>]
List(q) == [t |-> "array", v |-> q]

\* JavaScript truthiness of a configuration value (used by `x || default`).
Truthy(x) == ~(x.t = "null" \/ x = Str("") \/ x = Num("0"))

\* Array.prototype.includes behind optional chaining: `x?.includes(s)`.
Includes(x, s) == x.t = "array" /\ \E i \in DOMAIN x.v : x.v[i] = s

\* ------------------------------------------------- Session Configuration
Fields ==
  {"modalities", "instructions", "voice", "input_audio_format",
   "output_audio_format", "input_audio_transcription", "turn_detection",
   "tools", "tool_choice", "temperature", "max_response_output_tokens"}

defaultSessionConfig ==
  [modalities |-> List(<<"text", "audio">>),
   instructions |-> Str(""),
   voice |-> Str("verse"),
   input_audio_format |-> Str("pcm16"),
   output_audio_format |-> Str("pcm16"),
   input_audio_transcription |-> Null,
   turn_detection |-> Null,
   tools |-> List(<<>>),
   tool_choice |-> Str("auto"),
   temperature |-> Num("0.8"),
   max_response_output_tokens |-> Num("4096")]

\* The empty argument object: updateSession() / updateSession({}).
NoFields == [f \in {} |-> Null]

\* A partial configuration is a function from the fields the caller supplied
\* to their values.  A field the caller left out, or passed as undefined, is
\* not in its domain: the destructuring defaults `= void 0` make the two
\* indistinguishable to the code.

\* The broken merges a slip in lines 300-315 would give.
MergeNullAsAbsent(cfg, p) ==
  [f \in Fields |-> IF f \in DOMAIN p /\ p[f] # Null THEN p[f] ELSE cfg[f]]

MergeFullReplace(cfg, p) ==
  [f \in Fields |-> IF f \in DOMAIN p THEN p[f] ELSE defaultSessionConfig[f]]

\* Lines 300-315: `x !== void 0 && (this.sessionConfig.x = x)` per field.
MergeSession(cfg, p) ==
  [f \in Fields |-> IF f \in DOMAIN p THEN p[f] ELSE cfg[f]]

\* ------------------------------------------------------------ Tool names
ToolNames == {"t1", "t2"}

\* ------------------------------------------------------ Conversation Store
\* Text is a sequence of characters, so that concatenation is \o.
Hel == <<"H", "e", "l">>
lo == <<"l", "o">>

\* The content-delta events and the part of the formatted view each one
\* grows.
DeltaTypes ==
  {"response.text.delta", "response.audio_transcript.delta",
   "response.function_call_arguments.delta"}
FormattedParts == {"text", "transcript", "arguments"}
DeltaPart(type) ==
  CASE type = "response.text.delta" -> "text"
    [] type = "response.audio_transcript.delta" -> "transcript"
    [] OTHER -> "arguments"

\* An item with its formatted view; NoItem is the absent item a handler gets
\* when no item is affected.
NoItem ==
  [id |-> "", status |-> "none", text |-> <<>>, transcript |-> <<>>,
   arguments |-> <<>>]
NewItem(id) ==
  [id |-> id, status |-> "in_progress", text |-> <<>>, transcript |-> <<>>,
   arguments |-> <<>>]

\* The structural delta returned with an item: the part that grew and by
\* what.
NoDelta == [part |-> "", value |-> <<>>]

\* The empty item collection, and a collection with an item put in it.
NoItems == [i \in {} |-> NoItem]
Put(store, item) ==
  [i \in DOMAIN store \cup {item.id} |-> IF i = item.id THEN item ELSE store[i]]

\* processEvent of the Conversation Store on the collection `store`: the
\* new collection, the affected item (or none) and the delta.  An item
\* lifecycle start creates the item in progress; a content delta appends
\* to the addressed part; an item completion sets the status; an event
\* that addresses an unknown item id is ignored and affects no item.
ProcessEvent(store, frame) ==
  IF frame.type = "conversation.item.created"
  THEN [store |-> Put(store, NewItem(frame.item_id)),
        item |-> NewItem(frame.item_id), delta |-> NoDelta]
  ELSE IF frame.item_id \notin DOMAIN store
  THEN [store |-> store, item |-> NoItem, delta |-> NoDelta]
  ELSE IF frame.type \in DeltaTypes
  THEN LET item == [store[frame.item_id] EXCEPT
                      ![DeltaPart(frame.type)] = @ \o frame.delta]
       IN [store |-> Put(store, item), item |-> item,
           delta |-> [part |-> DeltaPart(frame.type), value |-> frame.delta]]
  ELSE LET item == [store[frame.item_id] EXCEPT !.status = "completed"]
       IN [store |-> Put(store, item), item |-> item, delta |-> NoDelta]

\* ------------------------------------------------------------------ state
VARIABLES
  \* RealtimeClient fields
  ephemeralKey,          \* this.ephemeralKey: a key, or NoKey
  fetchEphemeralKeyUrl,  \* whether the constructor was given a fetch URL
  realtime,              \* this.realtime: the transport the constructor
                         \* created, "none" while no client is constructed
  sessionConfig,         \* this.sessionConfig
  tools,                 \* this.tools: the names of the Tool Registry
  sessionCreated,        \* this.sessionCreated
  conversation,          \* this.conversation: the items it holds, by id
  \* RealtimeWebRTC fields: 0 is null, n > 0 the object attempt n created
  pc, dc, audioStream, audioElement,
  \* the browser objects themselves
  pcs,                   \* RTCPeerConnection n
  dcs,                   \* RTCDataChannel n: readyState, or "none"
  streams,               \* microphone track of stream n: "none", "live", "ended"
  audios,                \* Audio element n: its state and the peer connection
                         \* whose track it plays
  \* activations
  conn,                  \* connect() call a: where it is suspended, how it settled
  calls,                 \* callTool activation c
  waiter,                \* the waitForSessionCreated() call: "idle" before it,
                         \* "waiting", "resolved" or "rejected"
  \* what the program did, as its environment sees it
  bus,                   \* events dispatched on the two event buses, in order
  sent,                  \* events written to data channels, in order
  lastOp,                \* the run that made the last step, and what it threw
  \* history
  given                  \* per field, the value the last call supplying it gave

clientVars ==
  <<ephemeralKey, fetchEphemeralKeyUrl, realtime, sessionConfig, tools, sessionCreated,
    conversation>>
rtcVars == <<pc, dc, audioStream, audioElement>>
heapVars == <<pcs, dcs, streams, audios>>
outVars == <<bus, sent>>
vars == <<clientVars, rtcVars, heapVars, conn, calls, waiter, outVars, lastOp, given>>

NoKey == "none"

\* ----------------------------------------------------------- isConnected
\* Lines 349-351: pc?.connectionState === 'connected' &&
\* dc?.readyState === 'open'.
isConnected ==
  /\ pc # 0 /\ pcs[pc].conn = "connected"
  /\ dc # 0 /\ dcs[dc].state = "open"

\* ------------------------------------------------------------------- send
\* The payload argument of send: a JavaScript value.  `f` holds the own
\* enumerable properties the spread `...data` copies: the fields of a
\* record, the indices of an array, nothing for null.
NoProps == [k \in {} |-> ""]
Obj(f) == [t |-> "object", f |-> f]
JsNull == [t |-> "null", f |-> NoProps]
Arr(f) == [t |-> "array", f |-> f]
JsString == [t |-> "string", f |-> NoProps]
Undefined == [t |-> "undefined", f |-> NoProps]

\* The JavaScript typeof operator.
TypeOf(d) == IF d.t \in {"object", "null", "array"} THEN "object" ELSE d.t

\* Line 581: the default parameter `data = {}` replaces undefined.
DefaultData(d) == IF d.t = "undefined" THEN Obj(NoProps) ELSE d

\* Lines 582-587: the error send throws before doing anything, or "none".
SendError(d) ==
  IF ~isConnected THEN "NotConnected"
  ELSE IF TypeOf(DefaultData(d)) # "object" THEN "DataNotObject"
  ELSE "none"

\* Lines 588-592: { event_id: generateId('evt_'), type: eventName, ...data }.
\* The spread comes last, so a payload field named type or event_id wins.
BuildEvent(eventName, d) ==
  LET props == DefaultData(d).f
      base == [event_id |-> "evt_generated", type |-> eventName]
  IN [k \in DOMAIN base \cup DOMAIN props |->
        IF k \in DOMAIN props THEN props[k] ELSE base[k]]

\* Lines 593-594 with the client.* logging handler of lines 68-75: the
\* dispatches one accepted send makes, in order.
ClientDispatches(eventName, e) ==
  << [on |-> "realtime", name |-> "client." \o eventName, event |-> e],
     [on |-> "realtime", name |-> "client.*", event |-> e],
     [on |-> "client", name |-> "realtime.event",
      event |-> [source |-> "client", event |-> e]] >>

\* Line 597: this.dc.send(JSON.stringify(event)); `by` and `id` record the
\* run that sent it.
ChannelWrite(e, by, id) == [dc |-> dc, event |-> e, by |-> by, id |-> id]

\* Lines 581-603: this.realtime.send(eventName, d) made by the run `by`/`id`
\* when the events dispatched and written so far are out.bus and out.sent:
\* nothing happens when it throws at lines 582-587, otherwise the event is
\* dispatched and written once.
SendOnto(out, eventName, d, by, id) ==
  IF SendError(d) # "none"
  THEN [bus |-> out.bus, sent |-> out.sent, threw |-> SendError(d)]
  ELSE [bus |-> out.bus \o ClientDispatches(eventName, BuildEvent(eventName, d)),
        sent |-> Append(out.sent, ChannelWrite(BuildEvent(eventName, d), by, id)),
        threw |-> "none"]

\* One send as the only output of a step.
RealtimeSend(eventName, d, by, id) ==
  LET r == SendOnto([bus |-> bus, sent |-> sent], eventName, d, by, id) IN
  /\ bus' = r.bus
  /\ sent' = r.sent

\* ---------------------------------------------------------- run records
\* lastOp names the run that made the last step: its operation, the
\* activation it belongs to, what it threw ("none" if nothing) and, for
\* updateSession and send, its argument.
Ran(op, id, threw) == [op |-> op, id |-> id, threw |-> threw, arg |-> NoFields]
RanWith(op, id, threw, arg) == [op |-> op, id |-> id, threw |-> threw, arg |-> arg]

\* --------------------------------------------------------- updateSession
\* What an updateSession call that slips would send: only the fields of
\* this call instead of the whole configuration.
SessionPayloadChangedOnly(cfg, p) == Obj([session |-> p])

\* Lines 318-320: the payload { session: this.sessionConfig }.
SessionPayload(cfg, p) == Obj([session |-> cfg])

\* Lines 287-323, for a caller `by`/`id`.
UpdateSessionRun(p, by, id) ==
  /\ sessionConfig' = MergeSession(sessionConfig, p)
  /\ given' = [f \in DOMAIN given \cup DOMAIN p |->
                 IF f \in DOMAIN p THEN p[f] ELSE given[f]]
  /\ IF isConnected
     THEN RealtimeSend("session.update", SessionPayload(sessionConfig', p), by, id)
     ELSE UNCHANGED <<bus, sent>>

\* What updateSession throws: what its send throws, if it sends.
UpdateSessionError(p) ==
  IF isConnected
  THEN SendError(SessionPayload(MergeSession(sessionConfig, p), p))
  ELSE "none"

\* updateSession(p) called by the application.
UpdateSession(p) ==
  /\ isConnected => Len(sent) < MaxSent
  /\ UpdateSessionRun(p, "updateSession", 0)
  /\ lastOp' = RanWith("updateSession", 0, UpdateSessionError(p), p)
  /\ UNCHANGED <<ephemeralKey, fetchEphemeralKeyUrl, realtime, conversation, tools, sessionCreated,
                 rtcVars, heapVars, conn, calls, waiter>>

\* ------------------------------------------------- addTool / removeTool
\* this.tools is a plain object (line 60: `this.tools = {}`), so a lookup
\* this.tools[name] also finds what every object inherits from
\* Object.prototype; those values are functions, hence truthy.
ObjectPrototypeNames == {"toString", "constructor"}

\* Lines 261, 275 and 107: the test `this.tools[name]`.
Registered(name) == name \in tools \/ name \in ObjectPrototypeNames

\* Lines 256-268: the error addTool throws, or "none".  `name` is
\* definition?.name ("" when missing), `callable` is
\* typeof handler === 'function'.
AddToolError(name, callable) ==
  IF name = "" THEN "MissingToolName"
  ELSE IF Registered(name) THEN "ToolAlreadyAdded"
  ELSE IF ~callable THEN "HandlerNotFunction"
  ELSE "none"

\* Lines 256-272.
AddTool(name, callable) ==
  LET err == AddToolError(name, callable) IN
  /\ lastOp' = RanWith("addTool", 0, err, [name |-> name, callable |-> callable])
  /\ IF err # "none"
     THEN UNCHANGED <<tools, sessionConfig, given, bus, sent>>
     ELSE /\ isConnected => Len(sent) < MaxSent
          /\ tools' = tools \cup {name}
          /\ UpdateSessionRun(NoFields, "addTool", 0)
  /\ UNCHANGED <<ephemeralKey, fetchEphemeralKeyUrl, realtime, conversation, sessionCreated,
                 rtcVars, heapVars, conn, calls, waiter>>

\* Lines 274-280.
RemoveTool(name) ==
  /\ lastOp' = RanWith("removeTool", 0,
                       IF Registered(name) THEN "none" ELSE "ToolDoesNotExist",
                       [name |-> name])
  /\ tools' = tools \ {name}
  /\ UNCHANGED <<ephemeralKey, fetchEphemeralKeyUrl, realtime, conversation, sessionConfig,
                 sessionCreated, rtcVars, heapVars, conn, calls, waiter, outVars, given>>

\* ---------------------------------------------------- RealtimeWebRTC.send
\* Lines 581-603, called by the application on client.realtime.
Send(eventName, d) ==
  LET err == SendError(d) IN
  /\ lastOp' = RanWith("send", 0, err, d)
  /\ IF err = "none"
     THEN Len(sent) < MaxSent
     ELSE TRUE
  /\ RealtimeSend(eventName, d, "send", 0)
  /\ UNCHANGED <<clientVars, rtcVars, heapVars, conn, calls, waiter, given>>

\* -------------------------------------------------------- browser objects
\* An RTCPeerConnection: connectionState ("none" before it is created; "new"
\* stands for both 'new' and 'connecting', which the code never tells apart),
\* how far the offer/answer exchange got, and the handlers installed on it.
NoPc == [conn |-> "none", sig |-> "stable", onstate |-> FALSE, ontrack |-> FALSE]
NewPc == [conn |-> "new", sig |-> "stable", onstate |-> FALSE, ontrack |-> FALSE]
\* RTCPeerConnection.close(): the state is 'closed' for good and no event
\* fires any more, so the handlers and descriptions no longer matter.
ClosedPc == [conn |-> "closed", sig |-> "stable", onstate |-> FALSE, ontrack |-> FALSE]

\* An RTCDataChannel: readyState and the peer connection that created it.
NoDc == [state |-> "none", owner |-> 0]
NewDc(owner) == [state |-> "connecting", owner |-> owner]

\* An Audio element: "none" before it is created, then "playing" (play() was
\* called) or "paused", and the peer connection whose track is its srcObject
\* (0 for none).
NoAudio == [state |-> "none", pc |-> 0]

\* A connect() call: where it is suspended ("idle" before the call, "dead"
\* when nothing of it is scheduled any more), how its promise settled ("none"
\* while pending, "true", or the error it rejected with), whether its
\* connection timer is armed, the key given to the transport, and (history)
\* whether disconnect was called while the call was in flight and whether
\* the call fetched an ephemeral key.
IdleCall ==
  [at |-> "idle", result |-> "none", timer |-> FALSE, key |-> NoKey, cut |-> FALSE,
   fetched |-> FALSE]

\* A call is in flight from its start until its promise settles.
InFlight(a) == conn[a].at # "idle" /\ conn[a].result = "none"

\* History: the calls, with those in flight marked as cut by a disconnect.
CutInFlight == [a \in Attempts |-> [conn[a] EXCEPT !.cut = @ \/ InFlight(a)]]

\* ------------------------------------------------- RealtimeWebRTC.disconnect
\* Lines 551-573 as functions of the objects: stop the tracks of
\* this.audioStream, close this.dc, close this.pc (which closes the channels
\* it created).
StreamsLeftLive(S) == S

StreamsAfterDisconnect(S) ==
  IF audioStream # 0 THEN [S EXCEPT ![audioStream] = "ended"] ELSE S

\* Lines 557-561: pause this.audioElement and drop its srcObject.
AudiosAfterDisconnect ==
  IF audioElement # 0
  THEN [audios EXCEPT ![audioElement] = [state |-> "paused", pc |-> 0]]
  ELSE audios

DcsAfterDisconnect(D) ==
  [i \in Attempts |->
     IF D[i].state # "none" /\ (i = dc \/ (pc # 0 /\ D[i].owner = pc))
     THEN [D[i] EXCEPT !.state = "closed"]
     ELSE D[i]]

PcsAfterDisconnect(P) ==
  IF pc # 0 THEN [P EXCEPT ![pc] = ClosedPc] ELSE P

\* Lines 551-573: RealtimeWebRTC.disconnect(), starting from the objects
\* P, D, S.
TransportDisconnect(P, D, S) ==
  /\ streams' = StreamsAfterDisconnect(S)
  /\ dcs' = DcsAfterDisconnect(D)
  /\ pcs' = PcsAfterDisconnect(P)
  /\ audios' = AudiosAfterDisconnect
  /\ audioStream' = 0
  /\ audioElement' = 0
  /\ dc' = 0
  /\ pc' = 0

\* A disconnect that dereferences this.pc without testing it.
DisconnectErrorUnguarded == IF pc = 0 THEN "TypeError" ELSE "none"

\* Lines 553, 557, 564 and 568: every object is tested before it is used, so
\* disconnect throws nothing.
DisconnectError == "none"

\* History: the run of disconnect `op`, and whether the step before it was
\* a run of the same operation.
RanDisconnect(op) ==
  RanWith(op, 0, DisconnectError, [again |-> lastOp.op = op])

\* Line 248: this.realtime.isConnected() && this.realtime.disconnect().
ClientDisconnectTransport ==
  IF isConnected
  THEN TransportDisconnect(pcs, dcs, streams)
  ELSE UNCHANGED <<rtcVars, heapVars>>

\* Lines 246-250: RealtimeClient.disconnect().
ClientDisconnect ==
  /\ sessionCreated' = FALSE
  /\ ClientDisconnectTransport
  /\ lastOp' = RanDisconnect("disconnect")
  /\ conversation' = NoItems
  /\ conn' = CutInFlight
  /\ UNCHANGED <<ephemeralKey, fetchEphemeralKeyUrl, realtime, sessionConfig, tools,
                 calls, waiter, outVars, given>>

\* Lines 551-573 called by the application on client.realtime.
RealtimeDisconnect ==
  /\ TransportDisconnect(pcs, dcs, streams)
  /\ lastOp' = RanDisconnect("realtime.disconnect")
  /\ conn' = CutInFlight
  /\ UNCHANGED <<clientVars, calls, waiter, outVars, given>>

\* ---------------------------------------------------- connect: settling
\* In the calls C, call a with its promise rejected with err and nothing
\* left to run.
Rejected(C, a, err) ==
  [C EXCEPT ![a] = [@ EXCEPT !.at = "dead", !.result = err]]

\* In the calls C, call a suspended at the await `at`.
Suspended(C, a, at) == [C EXCEPT ![a].at = at]

\* Lines 396-412: the audio settings pass validation.
validFormats == {Str("pcm16"), Str("g711_ulaw"), Str("g711_alaw")}
validVoices ==
  {Str("alloy"), Str("ash"), Str("ballad"), Str("coral"), Str("echo"),
   Str("sage"), Str("shimmer"), Str("verse")}
OrDefault(x, d) == IF Truthy(x) THEN x ELSE d
ValidAudio(cfg) ==
  /\ OrDefault(cfg.input_audio_format, Str("pcm16")) \in validFormats
  /\ OrDefault(cfg.output_audio_format, Str("pcm16")) \in validFormats
  /\ OrDefault(cfg.voice, Str("verse")) \in validVoices

\* Lines 378-487 up to the first await: RealtimeWebRTC.connect() of call a
\* with the ephemeral key `key`.
TransportConnect(a, key) ==
  LET C == [conn EXCEPT ![a].key = key] IN
  IF isConnected
  THEN /\ conn' = Rejected(C, a, "AlreadyConnected")
       /\ UNCHANGED <<rtcVars, heapVars>>
  ELSE IF key = NoKey
  THEN /\ conn' = Rejected(C, a, "EphemeralKeyRequired")
       /\ UNCHANGED <<rtcVars, heapVars>>
  ELSE /\ pc' = a
       /\ pcs' = [pcs EXCEPT ![a] = NewPc]
       /\ UNCHANGED <<audioStream, audioElement, streams, audios>>
       /\ IF Includes(sessionConfig.modalities, "audio")
          THEN IF ~ValidAudio(sessionConfig)
               THEN /\ conn' = Rejected(C, a, "InvalidAudioSetting")
                    /\ UNCHANGED <<dc, dcs>>
               ELSE /\ conn' = Suspended(C, a, "getUserMedia")
                    /\ UNCHANGED <<dc, dcs>>
          ELSE /\ dc' = a
               /\ dcs' = [dcs EXCEPT ![a] = NewDc(a)]
               /\ conn' = Suspended(C, a, "offer")

\* The number the next connect() call gets: calls are numbered in order.
NextCall == 1 + Cardinality({a \in Attempts : conn[a].at # "idle"})

\* Lines 193-195 checked after the key is stored: the slip of testing the
\* guard too late.
ConnectGuardLate(keyArg) ==
  /\ isConnected
  /\ lastOp' = RanWith("connect", 0, "AlreadyConnected", [ephemeralKey |-> keyArg])
  /\ ephemeralKey' = IF keyArg # NoKey THEN keyArg ELSE ephemeralKey
  /\ UNCHANGED <<fetchEphemeralKeyUrl, realtime, conversation, sessionConfig, tools, sessionCreated,
                 rtcVars, heapVars, conn, calls, waiter, outVars, given>>

\* Lines 193-195: RealtimeClient.connect({ephemeralKey}) called while
\* connected throws before it does anything; keyArg is NoKey when the caller
\* passes no key.
ConnectWhileConnected(keyArg) ==
  /\ isConnected
  /\ lastOp' = RanWith("connect", 0, "AlreadyConnected", [ephemeralKey |-> keyArg])
  /\ UNCHANGED <<clientVars, rtcVars, heapVars, conn, calls, waiter, outVars, given>>

\* Lines 192-234 up to the first await: RealtimeClient.connect({ephemeralKey})
\* called while not connected, as call a.
ConnectStart(a, keyArg) ==
  /\ ~isConnected
  /\ a = NextCall
  /\ UNCHANGED <<fetchEphemeralKeyUrl, realtime, conversation, sessionConfig, tools, sessionCreated,
                 calls, waiter, outVars, given>>
  /\ ephemeralKey' = IF keyArg # NoKey THEN keyArg ELSE ephemeralKey
  /\ IF ephemeralKey' = NoKey /\ fetchEphemeralKeyUrl
     THEN /\ conn' = [Suspended(conn, a, "fetchKey") EXCEPT ![a].fetched = TRUE]
          /\ UNCHANGED <<rtcVars, heapVars>>
     ELSE IF ephemeralKey' = NoKey
     THEN /\ conn' = Rejected(conn, a, "EphemeralKeyRequired")
          /\ UNCHANGED <<rtcVars, heapVars>>
     ELSE TransportConnect(a, ephemeralKey')
  /\ lastOp' = RanWith("connect", a,
                       IF conn'[a].at = "dead" THEN conn'[a].result ELSE "none",
                       [ephemeralKey |-> keyArg])

\* Lines 192-234 up to the first await.
Connect(keyArg) ==
  \/ ConnectWhileConnected(keyArg)
  \/ \E a \in Attempts : ConnectStart(a, keyArg)

\* A fetch block that checks the status but not the ephemeral_key field.
FetchErrorStatusOnly(outcome) ==
  IF outcome = "status" THEN "FailedToFetchKey.status" ELSE "none"

\* Lines 207-216: the error the fetch block throws for a response, rewrapped
\* by its catch as 'Failed to fetch ephemeral key: <cause>', or "none".
FetchError(outcome) ==
  IF outcome = "ok" THEN "none" ELSE "FailedToFetchKey." \o outcome

\* Lines 206-227: the credential fetch of call a returns.  outcome is "ok"
\* (2xx and a body with ephemeral_key = key), "status" (not 2xx), "format"
\* (no ephemeral_key field) or "network" (fetch itself rejects).
KeyFetchReturns(a, outcome, key) ==
  /\ conn[a].at = "fetchKey"
  /\ UNCHANGED <<fetchEphemeralKeyUrl, realtime, conversation, sessionConfig, tools, sessionCreated,
                 calls, waiter, outVars, given>>
  /\ IF FetchError(outcome) = "none"
     THEN /\ ephemeralKey' = key
          /\ TransportConnect(a, key)
     ELSE /\ conn' = Rejected(conn, a, FetchError(outcome))
          /\ UNCHANGED <<ephemeralKey, rtcVars, heapVars>>
  /\ lastOp' = RanWith("connect.resume", a,
                       IF conn'[a].at = "dead" THEN conn'[a].result ELSE "none",
                       [fetch |-> outcome])

\* Lines 424-487: getUserMedia of call a returns; the track is added to
\* this.pc, the ontrack handler installed, the data channel created and
\* createOffer called.  Everything up to the log call is inside the try whose
\* catch rethrows 'Microphone access required'.
GetUserMediaReturns(a, granted) ==
  /\ conn[a].at = "getUserMedia"
  /\ UNCHANGED <<clientVars, calls, waiter, outVars, given, audioElement, audios>>
  /\ IF ~granted
     THEN /\ conn' = Rejected(conn, a, "MicrophoneRequired")
          /\ UNCHANGED <<pc, dc, audioStream, heapVars>>
     ELSE /\ audioStream' = a
          /\ streams' = [streams EXCEPT ![a] = "live"]
          /\ pc' = pc
          /\ IF pc = 0
             THEN /\ conn' = Rejected(conn, a, "MicrophoneRequired")
                  /\ UNCHANGED <<dc, pcs, dcs>>
             ELSE /\ pcs' = [pcs EXCEPT ![pc].ontrack = TRUE]
                  /\ dc' = a
                  /\ dcs' = [dcs EXCEPT ![a] = NewDc(pc)]
                  /\ conn' = Suspended(conn, a, "offer")
  /\ lastOp' = Ran("connect.resume", a,
                   IF conn'[a].at = "dead" THEN conn'[a].result ELSE "none")

\* Lines 487-488: createOffer of call a resolves and setLocalDescription is
\* called on this.pc.
OfferResumes(a) ==
  /\ conn[a].at = "offer"
  /\ UNCHANGED <<clientVars, calls, waiter, outVars, given, rtcVars, dcs, streams, audios>>
  /\ IF pc = 0
     THEN /\ conn' = Rejected(conn, a, "TypeError")
          /\ UNCHANGED pcs
     ELSE /\ conn' = Suspended(conn, a, "setLocalDescription")
          /\ pcs' = [pcs EXCEPT ![pc].sig =
                       IF @ = "stable" THEN "have-local-offer" ELSE @]
  /\ lastOp' = Ran("connect.resume", a,
                   IF conn'[a].at = "dead" THEN conn'[a].result ELSE "none")

\* Lines 488-499: setLocalDescription of call a resolves and the offer
\* this.pc.localDescription.sdp is POSTed with the call's key.
LocalDescriptionResumes(a) ==
  /\ conn[a].at = "setLocalDescription"
  /\ UNCHANGED <<clientVars, calls, waiter, outVars, given, rtcVars, heapVars>>
  /\ conn' = IF pc = 0 \/ pcs[pc].sig = "stable"
             THEN Rejected(conn, a, "TypeError")
             ELSE Suspended(conn, a, "post")
  /\ lastOp' = Ran("connect.resume", a,
                   IF conn'[a].at = "dead" THEN conn'[a].result ELSE "none")

\* Lines 491-510: the POST of call a returns; outcome is "ok" (2xx),
\* "status" (not 2xx) or "network".  On 2xx the body is read and
\* setRemoteDescription is called on this.pc.
PostReturns(a, outcome) ==
  /\ conn[a].at = "post"
  /\ UNCHANGED <<clientVars, calls, waiter, outVars, given, rtcVars, dcs, streams, audios>>
  /\ IF outcome = "status"
     THEN /\ conn' = Rejected(conn, a, "FailedToConnect")
          /\ UNCHANGED pcs
     ELSE IF outcome = "network"
     THEN /\ conn' = Rejected(conn, a, "NetworkError")
          /\ UNCHANGED pcs
     ELSE IF pc = 0
     THEN /\ conn' = Rejected(conn, a, "TypeError")
          /\ UNCHANGED pcs
     ELSE IF pcs[pc].sig # "have-local-offer"
     THEN /\ conn' = Rejected(conn, a, "InvalidStateError")
          /\ UNCHANGED pcs
     ELSE /\ conn' = Suspended(conn, a, "setRemoteDescription")
          /\ pcs' = [pcs EXCEPT ![pc].sig = "answered"]
  /\ lastOp' = Ran("connect.resume", a,
                   IF conn'[a].at = "dead" THEN conn'[a].result ELSE "none")

\* ------------------------------------------------- connect: the poll
\* How the promise of call a stands after resolve/reject with `outcome`: a
\* settled promise ignores later settlements.
Settle(result, outcome) == IF result = "none" THEN outcome ELSE result

\* Lines 518-541: one run of checkConnection for call a.  inExecutor tells
\* the first, synchronous run (an exception there rejects the promise) from
\* a timer run (an exception there is uncaught and the poll is not
\* rescheduled).  A resolve that settles the promise resumes
\* RealtimeClient.connect at line 232: this.updateSession(), return true.
CheckConnection(a, inExecutor, armed) ==
  /\ UNCHANGED <<ephemeralKey, fetchEphemeralKeyUrl, realtime, conversation, tools, sessionCreated,
                 calls, waiter, rtcVars, dcs, streams, audios>>
  /\ IF isConnected
     THEN /\ conn' = [conn EXCEPT ![a] =
                        [@ EXCEPT !.at = "dead", !.timer = FALSE,
                                  !.result = Settle(@, "true")]]
          /\ pcs' = [pcs EXCEPT ![pc].onstate = TRUE]
          /\ lastOp' = Ran("checkConnection", a, "none")
          /\ IF conn[a].result = "none"
             THEN /\ Len(sent) < MaxSent
                  /\ UpdateSessionRun(NoFields, "connect", a)
             ELSE UNCHANGED <<sessionConfig, given, bus, sent>>
     ELSE /\ UNCHANGED <<sessionConfig, given, bus, sent, pcs>>
          /\ IF pc = 0
             THEN /\ conn' = [conn EXCEPT ![a] =
                                [@ EXCEPT !.at = "dead", !.timer = armed,
                                          !.result = IF inExecutor
                                                     THEN Settle(@, "TypeError")
                                                     ELSE @]]
                  /\ lastOp' = Ran("checkConnection", a, "TypeError")
             ELSE IF pcs[pc].conn = "failed"
             THEN /\ conn' = [conn EXCEPT ![a] =
                                [@ EXCEPT !.at = "dead", !.timer = FALSE,
                                          !.result = Settle(@, "ConnectionFailed")]]
                  /\ lastOp' = Ran("checkConnection", a, "none")
             ELSE /\ conn' = [conn EXCEPT ![a].at = "poll", ![a].timer = armed]
                  /\ lastOp' = Ran("checkConnection", a, "none")

\* Lines 510-543: setRemoteDescription of call a resolves; the promise is
\* created, the 10 s timer armed and checkConnection run once.
RemoteDescriptionResumes(a) ==
  /\ conn[a].at = "setRemoteDescription"
  /\ CheckConnection(a, TRUE, TRUE)

\* Line 539: the 100 ms timer of call a runs checkConnection again.
PollTick(a) ==
  /\ conn[a].at = "poll"
  /\ CheckConnection(a, FALSE, conn[a].timer)

\* Lines 514-516: the 10 s timer of call a fires.
ConnectionTimeout(a) ==
  /\ conn[a].timer
  /\ conn' = [conn EXCEPT ![a] =
                [@ EXCEPT !.timer = FALSE,
                          !.result = Settle(@, "ConnectionTimeout")]]
  /\ lastOp' = Ran("connectionTimeout", a, "none")
  /\ UNCHANGED <<clientVars, rtcVars, heapVars, calls, waiter, outVars, given>>

\* ------------------------------------------------------------- the peer
\* The connection states a peer connection can move between once the answer
\* is set; close() is final.
PeerMoves ==
  {<<"new", "connected">>, <<"new", "failed">>,
   <<"connected", "disconnected">>, <<"connected", "failed">>,
   <<"disconnected", "connected">>, <<"disconnected", "failed">>}

\* The close event of lines 527 and 530.
CloseEvent(error) ==
  [on |-> "realtime", name |-> "close", event |-> [error |-> error]]

\* Lines 524-532: the onconnectionstatechange handler, run with the objects
\* P after the change.  It reads this.pc, not the connection that changed.
OnConnectionStateChange(i, P) ==
  IF pc = 0
  THEN /\ lastOp' = RanWith("onconnectionstatechange", i, "TypeError",
                            [state |-> P[i].conn])
       /\ pcs' = P
       /\ UNCHANGED <<rtcVars, dcs, streams, audios, bus>>
  ELSE /\ lastOp' = RanWith("onconnectionstatechange", i, "none",
                            [state |-> P[i].conn])
       /\ IF P[pc].conn \in {"failed", "disconnected"}
          THEN /\ TransportDisconnect(P, dcs, streams)
               /\ bus' = Append(bus, CloseEvent(TRUE))
          ELSE IF P[pc].conn = "closed"
          THEN /\ TransportDisconnect(P, dcs, streams)
               /\ bus' = Append(bus, CloseEvent(FALSE))
          ELSE /\ pcs' = P
               /\ UNCHANGED <<rtcVars, dcs, streams, audios, bus>>

\* The browser changes the connection state of peer connection i to s and
\* fires connectionstatechange.
PeerConnectionState(i, s) ==
  /\ pcs[i].sig = "answered"
  /\ <<pcs[i].conn, s>> \in PeerMoves
  /\ UNCHANGED <<clientVars, conn, calls, waiter, sent, given>>
  /\ LET P == [pcs EXCEPT ![i].conn = s] IN
     IF pcs[i].onstate
     THEN OnConnectionStateChange(i, P)
     ELSE /\ pcs' = P
          /\ lastOp' = Ran("peer", i, "none")
          /\ UNCHANGED <<rtcVars, dcs, streams, audios, bus>>

\* The data channel i opens, once its peer connection is connected.
ChannelOpens(i) ==
  /\ dcs[i].state = "connecting"
  /\ pcs[dcs[i].owner].conn = "connected"
  /\ dcs' = [dcs EXCEPT ![i].state = "open"]
  /\ lastOp' = Ran("peer", i, "none")
  /\ UNCHANGED <<clientVars, rtcVars, pcs, streams, audios, conn, calls, waiter, outVars, given>>

\* The peer closes the data channel i.
ChannelCloses(i) ==
  /\ dcs[i].state = "open"
  /\ dcs' = [dcs EXCEPT ![i].state = "closed"]
  /\ lastOp' = Ran("peer", i, "none")
  /\ UNCHANGED <<clientVars, rtcVars, pcs, streams, audios, conn, calls, waiter, outVars, given>>

\* ------------------------------------------------------------ construction
\* A constructor that forgets the credential check of the WebRTC transport.
ConstructorErrorSocketOnly(document, transport, key, url, apiKey, allowApiKey) ==
  IF document /\ transport = "websocket" /\ apiKey /\ ~allowApiKey
  THEN "ApiKeyInBrowser"
  ELSE IF transport = "webrtc" /\ ~document THEN "WebRTCBrowserOnly"
  ELSE "none"

\* A constructor that refuses a long-lived key in a browser whatever the
\* opt-in flag says.
ConstructorErrorNoOptIn(document, transport, key, url, apiKey, allowApiKey) ==
  IF document /\ transport = "webrtc" /\ key = NoKey /\ ~url
  THEN "CredentialRequired"
  ELSE IF document /\ transport = "websocket" /\ apiKey
  THEN "ApiKeyInBrowser"
  ELSE IF transport = "webrtc" /\ ~document THEN "WebRTCBrowserOnly"
  ELSE "none"

\* Lines 11-19 and 40-43: the error the constructor throws, or "none".
\* document is whether globalThis.document is set (a browser-like
\* environment), key is NoKey for a missing or empty ephemeralKey, url and
\* apiKey are whether the option is given (and not empty), allowApiKey is
\* dangerouslyAllowAPIKeyInBrowser.
ConstructorError(document, transport, key, url, apiKey, allowApiKey) ==
  IF document /\ transport = "webrtc" /\ key = NoKey /\ ~url
  THEN "CredentialRequired"
  ELSE IF document /\ transport = "websocket" /\ apiKey /\ ~allowApiKey
  THEN "ApiKeyInBrowser"
  ELSE IF transport = "webrtc" /\ ~document THEN "WebRTCBrowserOnly"
  ELSE "none"

\* A callTool activation: where it is ("idle" before the item arrives,
\* "handler" while the tool handler is awaited, "done" once the async function
\* has settled), the tool it was asked for, its call_id, the failure it met
\* ("none" if the handler returned a result), and how its promise settled.
IdleToolCall ==
  [at |-> "idle", name |-> "", call_id |-> 0, dc |-> 0, failure |-> "none",
   settled |-> "none"]

\* Lines 8-56 and 335-343: a client constructed with transport 'webrtc' and
\* the credential options key/url.
Constructed(key, url) ==
  /\ ConstructorError(TRUE, "webrtc", key, url, FALSE, FALSE) = "none"
  /\ ephemeralKey = key
  /\ fetchEphemeralKeyUrl = url
  /\ realtime = "webrtc"
  /\ sessionConfig = defaultSessionConfig
  /\ tools = {}
  /\ sessionCreated = FALSE
  /\ conversation = NoItems
  /\ pc = 0 /\ dc = 0 /\ audioStream = 0 /\ audioElement = 0
  /\ pcs = [i \in Attempts |-> NoPc]
  /\ dcs = [i \in Attempts |-> NoDc]
  /\ streams = [i \in Attempts |-> "none"]
  /\ audios = [n \in Sinks |-> NoAudio]
  /\ conn = [a \in Attempts |-> IdleCall]
  /\ calls = [c \in ToolCalls |-> IdleToolCall]
  /\ waiter = "idle"
  /\ bus = <<>>
  /\ sent = <<>>
  /\ lastOp = Ran("constructor", 0, "none")
  /\ given = NoFields

Init == \E key \in {NoKey, "k1"} : Constructed(key, key = NoKey)

\* ------------------------------------------------- the connection lifecycle
\* The application awaits a connect() before it calls connect() again.
Awaited == \A b \in Attempts : conn[b].at = "idle" \/ conn[b].result # "none"

\* The application starts at most MaxConnects attempts; a connect() while
\* connected starts none.
MayConnect == isConnected \/ NextCall <= MaxConnects

\* The configurations the application sets before it connects.
ConnectPartials ==
  { [voice |-> Str("robot")],
    [modalities |-> List(<<"text">>)] }

Next ==
  \/ \E k \in {NoKey, "k2"} : Awaited /\ MayConnect /\ Connect(k)
  \/ \E a \in Attempts, o \in {"ok", "status", "format"} : KeyFetchReturns(a, o, "k1")
  \/ \E a \in Attempts, g \in BOOLEAN : GetUserMediaReturns(a, g)
  \/ \E a \in Attempts : OfferResumes(a)
  \/ \E a \in Attempts : LocalDescriptionResumes(a)
  \/ \E a \in Attempts, o \in {"ok", "status"} : PostReturns(a, o)
  \/ \E a \in Attempts : RemoteDescriptionResumes(a)
  \/ \E a \in Attempts : PollTick(a)
  \/ \E a \in Attempts : ConnectionTimeout(a)
  \/ \E i \in Attempts, st \in {"connected", "disconnected", "failed"} :
        PeerConnectionState(i, st)
  \/ \E i \in Attempts : ChannelOpens(i)
  \/ \E i \in Attempts : ChannelCloses(i)
  \/ ClientDisconnect
  \/ RealtimeDisconnect
  \/ \E p \in ConnectPartials : conn[1].at = "idle" /\ UpdateSession(p)

Spec == Init /\ [][Next]_vars

\* ------------------------------------------- session and tool registry
\* A client constructed with an ephemeral key and no fetch URL.
InitWithKey == Constructed("k1", FALSE)

\* The steps of a connect() that meets no failure: the microphone is
\* granted, the offer answered, the peer connection connects and the channel
\* opens.
Negotiation ==
  \/ \E a \in Attempts : GetUserMediaReturns(a, TRUE)
  \/ \E a \in Attempts : OfferResumes(a)
  \/ \E a \in Attempts : LocalDescriptionResumes(a)
  \/ \E a \in Attempts : PostReturns(a, "ok")
  \/ \E a \in Attempts : RemoteDescriptionResumes(a)
  \/ \E a \in Attempts : PollTick(a)
  \/ \E i \in Attempts : PeerConnectionState(i, "connected")
  \/ \E i \in Attempts : ChannelOpens(i)

LinkUp ==
  \/ Awaited /\ MayConnect /\ Connect(NoKey)
  \/ Negotiation

\* The partial configurations the application passes to updateSession.
SessionPartials ==
  { [voice |-> Str("alloy")],
    [voice |-> Null],
    [instructions |-> Str("y")],
    NoFields }

NextSession ==
  \/ LinkUp
  \/ \E p \in SessionPartials : UpdateSession(p)
  \/ ClientDisconnect

SpecSession == InitWithKey /\ [][NextSession]_vars

\* ---------------------------------------------------------- tool registry
NextRegistry ==
  \/ LinkUp
  \/ UpdateSession([instructions |-> Str("y")])
  \/ \E n \in {"t1", ""} : AddTool(n, TRUE)
  \/ AddTool("t1", FALSE)
  \/ \E n \in {"t1", "t2", "toString"} : RemoveTool(n)
  \/ ClientDisconnect

SpecRegistry == InitWithKey /\ [][NextRegistry]_vars

\* ------------------------------------------------------------------- send
\* The payloads the application passes to send.
SendPayloads ==
  { Obj([a |-> "1"]), Obj([type |-> "bar"]), JsNull, Arr([x \in {"0"} |-> "1"]),
    JsString, Undefined }

NextSend ==
  \/ LinkUp
  \/ \E d \in SendPayloads : Send("foo", d)
  \/ ClientDisconnect

SpecSend == InitWithKey /\ [][NextSend]_vars

\* -------------------------------------------------------- tool invocation
\* The item of a function_call_output reply: lines 112-116 and 120-124.
\* `output` is the JSON text: the handler's result, or { error: message }.
FunctionCallOutput(c, kind, text) ==
  Obj([item |-> [type |-> "function_call_output", call_id |-> c,
                 output |-> [kind |-> kind, text |-> text]]])

\* createResponse() of RealtimeClient: asks the peer for a new response.
CreateResponse(out, c) ==
  SendOnto(out, "response.create", Undefined, "createResponse", c)

\* Lines 118-127 from the catch block on, in invocation c for the function
\* call call_id: the error reply, then createResponse.  What the send of
\* line 119 throws leaves callTool.
CatchAndReply(out, c, call_id, message) ==
  LET r == SendOnto(out, "conversation.item.create",
                    FunctionCallOutput(call_id, "error", message), "callTool", c)
  IN IF r.threw = "none" THEN CreateResponse(r, c) ELSE r

\* Lines 111-127 once the handler has returned: the result reply, the catch
\* block if that send throws, then createResponse.
TryAndReply(out, c, call_id) ==
  LET r == SendOnto(out, "conversation.item.create",
                    FunctionCallOutput(call_id, "result", "r"), "callTool", c)
  IN IF r.threw = "none" THEN CreateResponse(r, c)
     ELSE CatchAndReply(out, c, call_id, r.threw)

\* Lines 105-110: what callTool throws before it awaits the handler; what
\* the lookup inherits from Object.prototype has no handler to call.
CallToolFailure(name, validJson) ==
  IF ~validJson THEN "SyntaxError"
  ELSE IF ~Registered(name) THEN "ToolNotAdded"
  ELSE IF name \notin tools THEN "TypeError"
  ELSE "none"

\* How the promise of callTool settles.
Settled(r) == IF r.threw = "none" THEN "fulfilled" ELSE "rejected"

\* The server message and what lines 472, 97-99 and 168-170 dispatch for it
\* before callTool is called.
ItemDoneMessage(c, name) ==
  [type |-> "response.output_item.done", call_id |-> c, name |-> name]

ItemDoneDispatches(c, name) ==
  << [on |-> "realtime", name |-> "server.response.output_item.done",
      event |-> ItemDoneMessage(c, name)],
     [on |-> "client", name |-> "conversation.updated",
      event |-> ItemDoneMessage(c, name)],
     [on |-> "client", name |-> "conversation.item.completed",
      event |-> ItemDoneMessage(c, name)] >>

\* Lines 473 and 76-83: the server.* dispatch and its logging handler.
ServerLogDispatches(c, name) ==
  << [on |-> "realtime", name |-> "server.*", event |-> ItemDoneMessage(c, name)],
     [on |-> "client", name |-> "realtime.event",
      event |-> [source |-> "server", event |-> ItemDoneMessage(c, name)]] >>

\* Lines 469-475 and 166-174: a response.output_item.done message for the
\* completed function call item call_id arrives on an open data channel;
\* callTool (lines 103-110) runs, as invocation c, up to the await of the
\* handler, or through its catch block when the arguments do not parse or
\* the tool is not registered.  calls[c].dc records the channel the message
\* arrived on.
OutputItemDoneFor(c, call_id, name, validJson) ==
  LET failure == CallToolFailure(name, validJson)
      before == [bus |-> bus \o ItemDoneDispatches(call_id, name), sent |-> sent]
      r == CatchAndReply(before, c, call_id, failure)
  IN
  /\ calls[c].at = "idle"
  /\ \A b \in ToolCalls : b < c => calls[b].at # "idle"
  /\ lastOp' = Ran("onmessage", c, "none")
  /\ \E i \in Attempts :
       /\ dcs[i].state = "open"
       /\ IF failure = "none"
          THEN /\ calls' = [calls EXCEPT ![c] =
                              [at |-> "handler", name |-> name, call_id |-> call_id,
                               dc |-> i, failure |-> "none", settled |-> "none"]]
               /\ bus' = before.bus \o ServerLogDispatches(call_id, name)
               /\ sent' = sent
          ELSE /\ Len(sent) + 2 <= MaxSent
               /\ calls' = [calls EXCEPT ![c] =
                              [at |-> "done", name |-> name, call_id |-> call_id,
                               dc |-> i, failure |-> failure, settled |-> Settled(r)]]
               /\ bus' = r.bus \o ServerLogDispatches(call_id, name)
               /\ sent' = r.sent
  /\ UNCHANGED <<clientVars, rtcVars, heapVars, conn, waiter, given>>

\* The first response.output_item.done of a function call: the call_id is
\* a new one.
OutputItemDone(c, name, validJson) == OutputItemDoneFor(c, c, name, validJson)

\* The peer sends response.output_item.done again for the item whose first
\* event started invocation d: the same item, so the same call_id, name
\* and argument text.
DuplicateItemDone(c, d) ==
  /\ calls[d].at # "idle"
  /\ calls[d].call_id = d
  /\ OutputItemDoneFor(c, d, calls[d].name, calls[d].failure # "SyntaxError")

\* Lines 110-127: the handler of call c returns a result or throws, and
\* callTool resumes.
HandlerSettles(c, returns) ==
  LET out == [bus |-> bus, sent |-> sent]
      r == IF returns THEN TryAndReply(out, c, calls[c].call_id)
           ELSE CatchAndReply(out, c, calls[c].call_id, "HandlerError")
  IN
  /\ calls[c].at = "handler"
  /\ isConnected => Len(sent) + 2 <= MaxSent
  /\ calls' = [calls EXCEPT ![c].at = "done",
                            ![c].failure = IF returns THEN "none" ELSE "HandlerError",
                            ![c].settled = Settled(r)]
  /\ bus' = r.bus
  /\ sent' = r.sent
  /\ lastOp' = Ran("callTool", c, r.threw)
  /\ UNCHANGED <<clientVars, rtcVars, heapVars, conn, waiter, given>>

NextTools ==
  \/ LinkUp
  \/ AddTool("t1", TRUE)
  \/ \E c \in ToolCalls, n \in ToolNames, v \in BOOLEAN : OutputItemDone(c, n, v)
  \/ \E c \in ToolCalls, ok \in BOOLEAN : HandlerSettles(c, ok)
  \/ ClientDisconnect

SpecTools == InitWithKey /\ [][NextTools]_vars

\* The peer may repeat the completion event of an item.
NextRepeat ==
  \/ LinkUp
  \/ AddTool("t1", TRUE)
  \/ \E c \in ToolCalls, n \in ToolNames, v \in BOOLEAN : OutputItemDone(c, n, v)
  \/ \E c, d \in ToolCalls : DuplicateItemDone(c, d)
  \/ \E c \in ToolCalls, ok \in BOOLEAN : HandlerSettles(c, ok)

SpecRepeat == InitWithKey /\ [][NextRepeat]_vars

\* The application disconnects and connects again as often as it likes,
\* also while a tool handler is running.
NextResume ==
  \/ Awaited /\ Connect(NoKey)
  \/ Negotiation
  \/ AddTool("t1", TRUE)
  \/ \E c \in ToolCalls, n \in ToolNames, v \in BOOLEAN : OutputItemDone(c, n, v)
  \/ \E c \in ToolCalls, ok \in BOOLEAN : HandlerSettles(c, ok)
  \/ ClientDisconnect

SpecResume == InitWithKey /\ [][NextResume]_vars

\* ---------------------------------------------------------- inbound frames
MaxFrames == 3

\* A frame received on the data channel: text that is not JSON, the JSON
\* text null, or a JSON object with a type and, for the events about an
\* item, the item's id and the delta.
BadFrame == [json |-> "invalid", type |-> "", item_id |-> "", delta |-> <<>>]
NullFrame == [json |-> "null", type |-> "", item_id |-> "", delta |-> <<>>]
Message(type) == [json |-> "object", type |-> type, item_id |-> "", delta |-> <<>>]
ItemEvent(type, id, delta) ==
  [json |-> "object", type |-> type, item_id |-> id, delta |-> delta]
ItemCreated(id) == ItemEvent("conversation.item.created", id, <<>>)
ItemDone(id) == ItemEvent("response.output_item.done", id, <<>>)

\* The frames onmessage has handled so far: each one ends in a server.*
\* dispatch or in an error event.
FramesHandled ==
  Cardinality({i \in DOMAIN bus : bus[i].name \in {"server.*", "error"}})

\* Lines 477-482: the local error event of the catch block.
ErrorEvent ==
  [on |-> "realtime", name |-> "error", event |-> [type |-> "invalid_message"]]

\* A frame that is dropped without a trace: what a catch block that forgot
\* to dispatch would give.
ParseFailureSilent == <<>>

\* Lines 476-483: what the catch block dispatches.
ParseFailureDispatches == <<ErrorEvent>>

\* Line 471 and `message.type` at 472-474: JSON.parse throws on text that
\* is not JSON; reading .type of null throws a TypeError.
FrameThrows(frame) == frame.json \in {"invalid", "null"}

\* The Event Bus isolates each handler invocation: an exception thrown by a
\* handler does not leave dispatch.
HandlerEscapes(handlerThrows) == FALSE

\* The event types of the model whose client handler calls the
\* Conversation Store: lines 143-149 and 156-174.
StoreTypes ==
  DeltaTypes \cup {"conversation.item.created", "response.output_item.done"}

\* The event types whose handler reads item.status: lines 146 and 168.
StatusReaders == {"conversation.item.created", "response.output_item.done"}

\* A handlerWithDispatch that never notifies.
UpdatedDispatchSilent(r) == <<>>

\* Lines 96-102: handlerWithDispatch dispatches conversation.updated with
\* the item and the delta if the store returned an item.
UpdatedDispatch(r) ==
  IF r.item # NoItem
  THEN << [on |-> "client", name |-> "conversation.updated",
           event |-> [item |-> r.item, delta |-> r.delta]] >>
  ELSE <<>>

\* The notification { item } of lines 145, 147 and 169.
ItemNotice(name, item) == [on |-> "client", name |-> name, event |-> [item |-> item]]

\* Lines 146 and 168: `item.status` throws a TypeError when the store
\* returned no item; the handlers registered as handlerWithDispatch itself
\* read nothing of the item.
HandlerRaises(frame) ==
  IF frame.type \in StatusReaders /\ ProcessEvent(conversation, frame).item = NoItem
  THEN "TypeError"
  ELSE "none"

\* Lines 143-174: what the client handler of the frame's type dispatches,
\* in order; the frame types outside StoreTypes have no dispatching handler.
HandlerDispatches(frame) ==
  LET r == ProcessEvent(conversation, frame) IN
  IF frame.type \notin StoreTypes THEN <<>>
  ELSE UpdatedDispatch(r)
       \o (IF frame.type = "conversation.item.created"
           THEN <<ItemNotice("conversation.item.appended", r.item)>> ELSE <<>>)
       \o (IF frame.type \in StatusReaders /\ r.item.status = "completed"
           THEN <<ItemNotice("conversation.item.completed", r.item)>> ELSE <<>>)

\* Lines 474-475 with the handlers of the frame's type and the server.*
\* logging handler of lines 76-83.
ServerDispatches(frame) ==
  << [on |-> "realtime", name |-> "server." \o frame.type, event |-> frame] >>
  \o HandlerDispatches(frame)
  \o << [on |-> "realtime", name |-> "server.*", event |-> frame],
        [on |-> "client", name |-> "realtime.event",
         event |-> [source |-> "server", event |-> frame]] >>

\* Lines 469-484: dc.onmessage of data channel i for one frame, while an
\* application handler registered for the frame's type throws or not.
\* `raised` records what the client's own handler raised.
OnMessage(i, frame, handlerThrows) ==
  /\ dcs[i].state = "open"
  /\ FramesHandled < MaxFrames
  /\ lastOp' = RanWith("onmessage", i, "none",
                       [frame |-> frame, handlerThrows |-> handlerThrows,
                        raised |-> IF FrameThrows(frame) THEN "none"
                                   ELSE HandlerRaises(frame)])
  /\ IF FrameThrows(frame)
     THEN /\ bus' = bus \o ParseFailureDispatches
          /\ UNCHANGED <<sessionCreated, conversation>>
     ELSE /\ sessionCreated' = (sessionCreated \/ frame.type = "session.created")
          /\ conversation' = IF frame.type \in StoreTypes
                             THEN ProcessEvent(conversation, frame).store
                             ELSE conversation
          /\ IF HandlerEscapes(handlerThrows)
             THEN bus' = bus \o <<ServerDispatches(frame)[1]>> \o ParseFailureDispatches
             ELSE bus' = bus \o ServerDispatches(frame)
  /\ UNCHANGED <<ephemeralKey, fetchEphemeralKeyUrl, realtime, sessionConfig, tools,
                 rtcVars, heapVars, conn, calls, waiter, sent, given>>

\* The frames the peer sends.
Frames ==
  {BadFrame, NullFrame, Message("bar"), Message("session.created"),
   ItemCreated("i1")}

NextInbound ==
  \/ LinkUp
  \/ \E i \in Attempts, f \in Frames, t \in BOOLEAN : OnMessage(i, f, t)
  \/ ClientDisconnect

SpecInbound == InitWithKey /\ [][NextInbound]_vars

\* ------------------------------------------------------ conversation events
\* The item events the peer sends, in any order: an event that arrives
\* before the item's creation, or after the store was cleared, addresses an
\* item id the Conversation Store does not know.
StoreFrames ==
  {ItemCreated("i1"), ItemDone("i1"),
   ItemEvent("response.text.delta", "i1", Hel),
   ItemEvent("response.text.delta", "i1", lo),
   ItemEvent("response.audio_transcript.delta", "i1", Hel),
   ItemEvent("response.function_call_arguments.delta", "i1", lo)}

NextStore ==
  \/ LinkUp
  \/ \E i \in Attempts, f \in StoreFrames : OnMessage(i, f, FALSE)
  \/ ClientDisconnect

SpecStore == InitWithKey /\ [][NextStore]_vars

\* -------------------------------------------------------------- reconnect
\* A client constructed with a fetch URL and no ephemeral key.
InitWithUrl == Constructed(NoKey, TRUE)

\* The endpoint issues a key per request.
NextReconnect ==
  \/ Awaited /\ Connect(NoKey)
  \/ \E a \in Attempts, k \in {"k1", "k2"} : KeyFetchReturns(a, "ok", k)
  \/ Negotiation
  \/ ClientDisconnect

SpecReconnect == InitWithUrl /\ [][NextReconnect]_vars

\* --------------------------------------------------- waitForSessionCreated
\* Lines 236-240: waitForSessionCreated() up to its first await: it throws
\* when the client is not connected, returns true when the flag is already
\* set, and otherwise waits on a 1 ms timer.
WaitForSessionCreated ==
  /\ waiter = "idle"
  /\ waiter' = IF ~isConnected THEN "rejected"
               ELSE IF sessionCreated THEN "resolved" ELSE "waiting"
  /\ lastOp' = Ran("waitForSessionCreated", 0,
                   IF isConnected THEN "none" ELSE "NotConnected")
  /\ UNCHANGED <<clientVars, rtcVars, heapVars, conn, calls, outVars, given>>

\* Lines 240-243: the 1 ms timer fires and the loop tests the flag again.
WaitTick ==
  /\ waiter = "waiting"
  /\ waiter' = IF sessionCreated THEN "resolved" ELSE "waiting"
  /\ lastOp' = Ran("waitForSessionCreated.tick", 0, "none")
  /\ UNCHANGED <<clientVars, rtcVars, heapVars, conn, calls, outVars, given>>

\* The peer delivers session.created on data channel i.
SessionCreatedArrives(i) == OnMessage(i, Message("session.created"), FALSE)

NextWait ==
  \/ LinkUp
  \/ \E i \in Attempts : SessionCreatedArrives(i)
  \/ WaitForSessionCreated
  \/ WaitTick
  \/ ClientDisconnect

\* Timers fire: a waiting waitForSessionCreated gets its next check.
SpecWait == InitWithKey /\ [][NextWait]_vars /\ WF_vars(WaitTick)

\* ------------------------------------------------------------ remote audio
\* The number the next Audio element gets.
NextSink == 1 + Cardinality({n \in Sinks : audios[n].state # "none"})

\* Lines 446-464: the peer adds a track of the given kind to peer connection
\* i, whose ontrack handler is installed; for an audio track the handler
\* creates an Audio element, stores it in this.audioElement and plays it.
OnTrack(i, kind) ==
  /\ pcs[i].ontrack
  /\ pcs[i].sig = "answered"
  /\ lastOp' = RanWith("ontrack", i, "none", [kind |-> kind])
  /\ IF kind = "audio"
     THEN /\ NextSink <= MaxTracks
          /\ audioElement' = NextSink
          /\ audios' = [audios EXCEPT ![NextSink] = [state |-> "playing", pc |-> i]]
     ELSE UNCHANGED <<audioElement, audios>>
  /\ UNCHANGED <<clientVars, pc, dc, audioStream, pcs, dcs, streams, conn, calls,
                 waiter, outVars, given>>

NextAudio ==
  \/ LinkUp
  \/ \E i \in Attempts, k \in {"audio", "video"} : OnTrack(i, k)
  \/ ClientDisconnect
  \/ RealtimeDisconnect

SpecAudio == InitWithKey /\ [][NextAudio]_vars

\* ------------------------------------------------------ dropped connections
\* The peer drops connections and closes channels, and the application
\* connects again as often as it likes.
NextDrop ==
  \/ Awaited /\ Connect(NoKey)
  \/ Negotiation
  \/ \E i \in Attempts, st \in {"disconnected", "failed"} : PeerConnectionState(i, st)
  \/ \E i \in Attempts : ChannelCloses(i)
  \/ ClientDisconnect

SpecDrop == InitWithKey /\ [][NextDrop]_vars

\* ------------------------------------------------- waiting on a later connection
\* The peer announces the session and later drops the connection; the
\* application connects again and waits for the session.
NextLater ==
  \/ Awaited /\ Connect(NoKey)
  \/ Negotiation
  \/ \E i \in Attempts : SessionCreatedArrives(i)
  \/ \E i \in Attempts, st \in {"disconnected", "failed"} : PeerConnectionState(i, st)
  \/ WaitForSessionCreated
  \/ WaitTick

SpecLater == InitWithKey /\ [][NextLater]_vars

\* ------------------------------------------------------ overlapping connects
\* The application calls connect() without awaiting the call before; no
\* step of the negotiation fails.
NextOverlap ==
  \/ Connect(NoKey)
  \/ Negotiation
  \/ ClientDisconnect

SpecOverlap == InitWithKey /\ [][NextOverlap]_vars

\* ----------------------------------------------------------- construction
\* Before `new RealtimeClient(...)`: no client, no transport, no browser
\* object.
NoClient ==
  /\ ephemeralKey = NoKey
  /\ fetchEphemeralKeyUrl = FALSE
  /\ realtime = "none"
  /\ sessionConfig = defaultSessionConfig
  /\ tools = {}
  /\ sessionCreated = FALSE
  /\ conversation = NoItems
  /\ pc = 0 /\ dc = 0 /\ audioStream = 0 /\ audioElement = 0
  /\ pcs = [i \in Attempts |-> NoPc]
  /\ dcs = [i \in Attempts |-> NoDc]
  /\ streams = [i \in Attempts |-> "none"]
  /\ audios = [n \in Sinks |-> NoAudio]
  /\ conn = [a \in Attempts |-> IdleCall]
  /\ calls = [c \in ToolCalls |-> IdleToolCall]
  /\ waiter = "idle"
  /\ bus = <<>>
  /\ sent = <<>>
  /\ lastOp = Ran("none", 0, "none")
  /\ given = NoFields

\* The constructor of the socket transport: it refuses a long-lived key in a
\* browser-like environment without the opt-in flag.
SocketTransportError(document, apiKey, allowApiKey) ==
  IF document /\ apiKey /\ ~allowApiKey THEN "ApiKeyInBrowser" ELSE "none"

\* Lines 8-56: what `new RealtimeClient(options)` throws, or "none".
ConstructionError(o) ==
  LET err == ConstructorError(o.document, o.transport, o.ephemeralKey,
                              o.fetchEphemeralKeyUrl, o.apiKey, o.allowApiKey)
  IN IF err # "none" THEN err
     ELSE IF o.transport = "webrtc" THEN "none"
     ELSE SocketTransportError(o.document, o.apiKey, o.allowApiKey)

\* The options of the constructor, and the environment it runs in.
Options ==
  [document : BOOLEAN, transport : {"webrtc", "websocket"},
   ephemeralKey : {NoKey, "k1"}, fetchEphemeralKeyUrl : BOOLEAN,
   apiKey : BOOLEAN, allowApiKey : BOOLEAN]

\* Lines 8-56 and 335-343: `new RealtimeClient(o)`.  A constructor that
\* throws leaves no client behind; the application may try again.
Construct(o) ==
  /\ realtime = "none"
  /\ lastOp' = RanWith("constructor", 0, ConstructionError(o), o)
  /\ IF ConstructionError(o) # "none"
     THEN UNCHANGED <<ephemeralKey, fetchEphemeralKeyUrl, realtime>>
     ELSE /\ ephemeralKey' = o.ephemeralKey
          /\ fetchEphemeralKeyUrl' = o.fetchEphemeralKeyUrl
          /\ realtime' = o.transport
  /\ sessionConfig' = defaultSessionConfig
  /\ tools' = {}
  /\ sessionCreated' = FALSE
  /\ conversation' = NoItems
  /\ UNCHANGED <<rtcVars, heapVars, conn, calls, waiter, outVars, given>>

\* A client on the WebRTC transport is then connected as before.
NextConstruct ==
  \/ \E o \in Options : Construct(o)
  \/ realtime = "webrtc" /\ LinkUp
  \/ realtime = "webrtc" /\ ClientDisconnect

SpecConstruct == NoClient /\ [][NextConstruct]_vars

\* ------------------------------------------------------------------ C1
\* The failures of connect() that C1 names.
ConnectFailures ==
  {"InvalidAudioSetting", "MicrophoneRequired", "FailedToConnect",
   "ConnectionFailed", "ConnectionTimeout"}

\* The runs that belong to a connect() call.
ConnectRuns == {"connect", "connect.resume", "checkConnection", "connectionTimeout"}

\* C1: whenever connect() fails with an invalid audio setting, a refused
\* microphone, a non-2xx answer to the offer POST, the connection state
\* 'failed' or the timeout, the transport holds no peer connection, no data
\* channel and no live microphone track after the rejection.
C1_FailedConnectReleasesAll ==
  \A a \in Attempts :
    (lastOp.op \in ConnectRuns /\ lastOp.id = a /\ conn[a].result \in ConnectFailures)
      => /\ pc = 0 /\ dc = 0 /\ audioStream = 0
         /\ pcs[a].conn \in {"none", "closed"}
         /\ dcs[a].state \in {"none", "closed"}
         /\ streams[a] # "live"

\* ------------------------------------------------------------------ C3
\* C3: when disconnect() is called while a connect() is in flight, the
\* peer connection, channel and microphone of that attempt are torn down, the
\* continuing connect machinery raises no exception, and the attempt does not
\* end with the client connected.
C3_DisconnectDuringConnectTearsDown ==
  \A a \in Attempts :
    conn[a].cut
      => /\ pcs[a].conn \in {"none", "closed"}
         /\ dcs[a].state \in {"none", "closed"}
         /\ streams[a] # "live"
         /\ ~(lastOp.op \in ConnectRuns /\ lastOp.id = a /\ lastOp.threw = "TypeError")
         /\ conn[a].result # "true"

\* ------------------------------------------------------------------ C4
\* C4: RealtimeClient.connect() called while connected rejects with the
\* already-connected error and changes nothing: no credential fetch and no
\* connect call started, no peer connection created, nothing sent, the stored
\* ephemeral key as before.
C4_ConnectWhileConnectedRejects ==
  [][(isConnected /\ lastOp'.op = "connect")
       => /\ lastOp'.threw = "AlreadyConnected"
          /\ UNCHANGED <<clientVars, rtcVars, heapVars, conn, calls, waiter, outVars, given>>]_vars

\* A connect({ephemeralKey: 'k2'}) was refused while the stored key is another.
C4_Witness ==
  /\ lastOp.op = "connect" /\ lastOp.threw = "AlreadyConnected"
  /\ lastOp.arg.ephemeralKey = "k2" /\ ephemeralKey # "k2"
  /\ isConnected

\* ------------------------------------------------------------------ C5
\* The session.update events connect() call a wrote to a data channel.
SentByConnect(s, a) ==
  {i \in DOMAIN s : s[i].by = "connect" /\ s[i].id = a
                    /\ s[i].event.type = "session.update"}

\* C5: the step in which a connect() succeeds leaves the client connected and
\* writes one session.update carrying the whole current Session Configuration
\* to the open channel; a connect() that succeeded has sent exactly one
\* session.update and any other connect() none.
C5_ConnectSendsOneSessionUpdate ==
  [][\A a \in Attempts :
       /\ (conn[a].result = "none" /\ conn'[a].result = "true")
            => /\ isConnected'
               /\ Len(sent') = Len(sent) + 1
               /\ sent'[Len(sent')].by = "connect"
               /\ sent'[Len(sent')].id = a
               /\ sent'[Len(sent')].dc = dc'
               /\ sent'[Len(sent')].event.type = "session.update"
               /\ sent'[Len(sent')].event.session = sessionConfig'
       /\ Cardinality(SentByConnect(sent', a))
            = IF conn'[a].result = "true" THEN 1 ELSE 0]_vars

\* A connect() returned true, and it was made with a configuration that is
\* not the default one.
C5_Witness ==
  \E a \in Attempts :
    /\ conn[a].result = "true"
    /\ lastOp.op = "checkConnection" /\ lastOp.id = a
    /\ sessionConfig # defaultSessionConfig

\* ------------------------------------------------------------------ C2
\* The session.update events written to data channels, in order.
SessionUpdates == SelectSeq(sent, LAMBDA s : s.event["type"] = "session.update")

\* The tool names in the `tools` field of the last session.update sent.
AdvertisedTools ==
  LET last == SessionUpdates[Len(SessionUpdates)].event["session"]
  IN {last.tools.v[i] : i \in DOMAIN last.tools.v}

\* C2: while connected, after an addTool, removeTool or updateSession call
\* that did not throw, the tools of the most recently sent session.update
\* are exactly the tools of the Tool Registry.
C2_AdvertisedToolsMatchRegistry ==
  (/\ isConnected
   /\ lastOp.op \in {"addTool", "removeTool", "updateSession"}
   /\ lastOp.threw = "none"
   /\ SessionUpdates # <<>>)
    => AdvertisedTools = tools

\* ------------------------------------------------------------------ C6
\* C6: every Session Configuration field holds the value of the most recent
\* updateSession call that supplied it (null included), or its default when
\* no call supplied it.
C6_SparseMerge ==
  \A f \in Fields :
    sessionConfig[f] = IF f \in DOMAIN given THEN given[f]
                       ELSE defaultSessionConfig[f]

\* updateSession({voice: null}) ran after calls that set voice and
\* instructions: voice is null, instructions is kept.
C6_Witness ==
  /\ lastOp.op = "updateSession" /\ lastOp.arg = [voice |-> Null]
  /\ sessionConfig.voice = Null
  /\ sessionConfig.instructions = Str("y")
  /\ sessionConfig.modalities = defaultSessionConfig.modalities

\* ------------------------------------------------------------------ C7
\* C7: an updateSession call made while connected writes exactly one
\* session.update whose session is the whole merged configuration; one made
\* while not connected stores the merge, sends nothing and does not throw.
C7_UpdateSessionSendsFullConfig ==
  [][lastOp'.op = "updateSession"
       => /\ lastOp'.threw = "none"
          /\ sessionConfig' = [f \in Fields |->
                                 IF f \in DOMAIN lastOp'.arg
                                 THEN lastOp'.arg[f] ELSE sessionConfig[f]]
          /\ IF isConnected
             THEN /\ Len(sent') = Len(sent) + 1
                  /\ SubSeq(sent', 1, Len(sent)) = sent
                  /\ sent'[Len(sent')].dc = dc
                  /\ sent'[Len(sent')].event["type"] = "session.update"
                  /\ sent'[Len(sent')].event["session"] = sessionConfig'
                  /\ DOMAIN sent'[Len(sent')].event["session"] = Fields
             ELSE sent' = sent /\ bus' = bus]_vars

\* A connected updateSession({instructions: 'y'}) wrote a session.update
\* that still carries the voice an earlier call had set.
C7_Witness ==
  /\ isConnected
  /\ lastOp.op = "updateSession" /\ lastOp.arg = [instructions |-> Str("y")]
  /\ sent # <<>>
  /\ sent[Len(sent)].by = "updateSession"
  /\ sent[Len(sent)].event["session"].voice = Str("alloy")
  /\ sent[Len(sent)].event["session"].instructions = Str("y")

\* ----------------------------------------------------------------- C10
\* The payloads that are not plain key-value records.
NotPlainRecord == {"string", "number", "boolean", "null", "array"}

\* C10: a send made while not connected, or with a payload that is a
\* primitive, null or an array, throws, dispatches nothing and writes
\* nothing to the channel.
C10_SendRejectsBadInput ==
  [][(/\ lastOp'.op = "send"
      /\ (~isConnected \/ lastOp'.arg.t \in NotPlainRecord))
       => /\ lastOp'.threw # "none"
          /\ bus' = bus
          /\ sent' = sent]_vars

\* ------------------------------------------------------------------ C8
\* The function_call_output items written for call c, as positions in sent.
OutputsFor(c) ==
  {i \in DOMAIN sent :
     /\ sent[i].event["type"] = "conversation.item.create"
     /\ sent[i].event["item"].call_id = c}

\* C8: once the tool invocation for a completed function call item has
\* ended, exactly one function_call_output with its call_id was written and
\* a response.create was written after it.
C8_ToolCallAnsweredOnce ==
  \A c \in ToolCalls :
    calls[c].at = "done" =>
      /\ Cardinality(OutputsFor(c)) = 1
      /\ \E i \in OutputsFor(c), j \in DOMAIN sent :
           /\ i < j
           /\ sent[j].event["type"] = "response.create"
           /\ sent[j].id = c

\* ------------------------------------------------------------------ C9
\* C9: a tool invocation that met a failure (arguments that do not parse,
\* an unregistered tool, a handler that throws) ends with its promise
\* fulfilled and an error function_call_output written for its call_id.
C9_ToolFailureNeverEscapes ==
  \A c \in ToolCalls :
    (calls[c].at = "done" /\ calls[c].failure # "none") =>
      /\ calls[c].settled = "fulfilled"
      /\ \E i \in OutputsFor(c) : sent[i].event["item"].output.kind = "error"

\* ----------------------------------------------------------------- C11
\* C11: a send('foo', payload) that is accepted writes exactly one event
\* whose type is 'foo', whose event_id is the generated one and which
\* carries the payload's other fields, and dispatches client.foo, client.*
\* (and the logging event) with that same event.
C11_SendBuildsEventOfType ==
  [][(lastOp'.op = "send" /\ lastOp'.threw = "none")
       => /\ Len(sent') = Len(sent) + 1
          /\ SubSeq(sent', 1, Len(sent)) = sent
          /\ LET e == sent'[Len(sent')].event
                 props == DefaultData(lastOp'.arg).f
             IN /\ e["type"] = "foo"
                /\ e["event_id"] = "evt_generated"
                /\ \A k \in DOMAIN props \ {"type", "event_id"} : e[k] = props[k]
                /\ bus' = bus \o ClientDispatches("foo", e)]_vars

\* ----------------------------------------------------------------- C12
\* C12: for a frame that parses as JSON, onmessage dispatches server.<type>
\* and then server.* (and its logging event), each once and with the parsed
\* message, whether or not a handler throws.
C12_ParsedFrameDispatchedTwice ==
  [][(lastOp'.op = "onmessage" /\ lastOp'.arg.frame.json # "invalid")
       => bus' = bus \o ServerDispatches(lastOp'.arg.frame)]_vars

\* ----------------------------------------------------------------- C13
\* C13: a frame that is not valid JSON gives exactly one error event of type
\* invalid_message and no server dispatch, changes no connection object and
\* leaves the channel open for the next frame.
C13_BadFrameOnlyReportsError ==
  [][(lastOp'.op = "onmessage" /\ lastOp'.arg.frame.json = "invalid")
       => /\ bus' = bus \o <<ErrorEvent>>
          /\ UNCHANGED <<rtcVars, heapVars, sent, conn>>
          /\ isConnected' = isConnected
          /\ dcs'[lastOp'.id].state = "open"]_vars

\* After a bad frame was reported, a later well-formed frame was dispatched.
C13_Witness ==
  /\ Len(bus) >= 4
  /\ bus[Len(bus) - 3] = ErrorEvent
  /\ bus[Len(bus) - 2].name = "server.bar"
  /\ bus[Len(bus) - 1].name = "server.*"
  /\ lastOp.op = "onmessage" /\ lastOp.arg.frame = Message("bar")
  /\ isConnected

\* ----------------------------------------------------------------- C14
\* The two disconnect operations.
Disconnects == {"disconnect", "realtime.disconnect"}

\* C14: neither disconnect ever throws, and a disconnect that directly
\* follows a run of the same disconnect changes nothing: no field, no
\* browser object, no event.
C14_DisconnectIdempotent ==
  [][lastOp'.op \in Disconnects
       => /\ lastOp'.threw = "none"
          /\ lastOp'.arg.again
               => UNCHANGED <<clientVars, rtcVars, heapVars, outVars, conn, calls, waiter>>]_vars

\* RealtimeWebRTC.disconnect was called twice in a row on a transport that
\* had been connected.
C14_Witness ==
  /\ lastOp.op = "realtime.disconnect" /\ lastOp.arg.again
  /\ pc = 0 /\ dc = 0
  /\ \E i \in Attempts : pcs[i] = ClosedPc /\ dcs[i].state = "closed"
                         /\ streams[i] = "ended"

\* ----------------------------------------------------------------- C15
\* C15: RealtimeClient.disconnect() on a connected client leaves the client
\* not connected, the transport's peer connection and data channel closed
\* and null, the tracks of its audio stream stopped, the session-created
\* flag false and the Conversation Store empty; a send made next throws the
\* not-connected error.
C15_DisconnectReleasesConnection ==
  [][(isConnected /\ lastOp'.op = "disconnect")
       => /\ ~isConnected'
          /\ pc' = 0 /\ dc' = 0 /\ audioStream' = 0
          /\ pcs'[pc].conn = "closed"
          /\ dcs'[dc].state = "closed"
          /\ audioStream # 0 => streams'[audioStream] = "ended"
          /\ sessionCreated' = FALSE
          /\ conversation' = NoItems
          /\ (SendError(Obj(NoProps)))' = "NotConnected"]_vars

\* A client that was connected, had seen session.created and held an item
\* has been disconnected.
C15_Witness ==
  /\ lastOp.op = "disconnect" /\ ~lastOp.arg.again
  /\ pc = 0 /\ \E i \in Attempts : pcs[i] = ClosedPc /\ streams[i] = "ended"
  /\ \E i \in DOMAIN bus : bus[i].name = "server.session.created"
  /\ \E i \in DOMAIN bus : bus[i].name = "conversation.item.appended"
  /\ conversation = NoItems /\ ~sessionCreated

\* ----------------------------------------------------------------- C16
\* C16: when the credential fetch of a connect() returns a non-2xx status
\* or a body without ephemeral_key, the call rejects with an error naming
\* that cause and is over (no offer is POSTed), no peer connection exists,
\* nothing was sent, the stored key is still unset and the client is not
\* connected.
C16_FailedKeyFetchRejects ==
  [][(/\ lastOp'.op = "connect.resume"
      /\ "fetch" \in DOMAIN lastOp'.arg
      /\ lastOp'.arg.fetch \in {"status", "format"})
       => /\ lastOp'.threw = "FailedToFetchKey." \o lastOp'.arg.fetch
          /\ conn'[lastOp'.id].result = lastOp'.threw
          /\ conn'[lastOp'.id].at = "dead"
          /\ pc' = 0 /\ dc' = 0
          /\ \A i \in Attempts : pcs'[i] = NoPc
          /\ sent' = sent
          /\ ephemeralKey' = NoKey
          /\ ~isConnected']_vars

\* The fetch answered with a body that has no ephemeral_key field.
C16_Witness ==
  /\ lastOp.op = "connect.resume" /\ lastOp.arg = [fetch |-> "format"]
  /\ lastOp.threw = "FailedToFetchKey.format"
  /\ fetchEphemeralKeyUrl /\ ephemeralKey = NoKey /\ pc = 0

\* ----------------------------------------------------------------- C17
\* C17: on a client constructed with a fetch URL and no key, every connect()
\* whose offer POST returns had fetched an ephemeral key in that same call
\* (and gave the transport a key).
C17_EveryConnectFetchesKey ==
  [][\A a \in Attempts :
       (conn[a].at = "post" /\ conn'[a].at # "post")
         => conn[a].fetched /\ conn[a].key # NoKey]_vars

\* ----------------------------------------------------------------- C18
\* C18: once the remote description of a connect() is set, its promise
\* settles in one of three ways only: true, read from a connected peer
\* connection with an open channel; 'Connection failed', read from a failed
\* peer connection; or 'Connection timeout', by the timer.
C18_ConnectSettlesThreeWays ==
  [][\A a \in Attempts :
       (/\ conn[a].at \in {"setRemoteDescription", "poll"}
        /\ conn[a].result = "none"
        /\ conn'[a].result # "none")
         => \/ conn'[a].result = "true" /\ isConnected
            \/ /\ conn'[a].result = "ConnectionFailed"
               /\ pc # 0 /\ pcs[pc].conn = "failed"
            \/ /\ conn'[a].result = "ConnectionTimeout"
               /\ lastOp'.op = "connectionTimeout"]_vars

\* ----------------------------------------------------------------- C19
\* C19: waitForSessionCreated() throws the not-connected error exactly when
\* the client is not connected at the call, resolves only with the flag of
\* session.created set, and, when timers keep firing, a waiting call
\* resolves once session.created has been delivered.
C19_WaiterResolvesAfterSessionCreated ==
  /\ [][lastOp'.op = "waitForSessionCreated"
          => /\ (lastOp'.threw = "NotConnected") <=> ~isConnected
             /\ (waiter' = "rejected") <=> ~isConnected]_vars
  /\ [][(waiter # "resolved" /\ waiter' = "resolved") => sessionCreated]_vars
  /\ (waiter = "waiting" /\ sessionCreated) ~> (waiter = "resolved")

\* ----------------------------------------------------------------- C20
\* The positions of the client's realtime.event log with the given source.
Logged(source) ==
  {i \in DOMAIN bus : bus[i].name = "realtime.event" /\ bus[i].event.source = source}

\* C20: in the realtime.event log, every server event comes after a
\* client session.update: connect() has sent the initial session.update
\* before any server event of the connection is dispatched.
C20_SessionUpdateLoggedFirst ==
  \A i \in Logged("server") :
    \E j \in Logged("client") :
      j < i /\ bus[j].event.event["type"] = "session.update"

\* ----------------------------------------------------------------- C21
\* C21: in a browser-like environment, constructing a client for the
\* WebRTC transport with neither an ephemeral key nor a fetch URL throws the
\* credential-requirement error; no transport and no browser object is
\* created, no connect call or fetch started and nothing sent.
C21_WebRTCNeedsCredential ==
  [][(/\ lastOp'.op = "constructor"
      /\ lastOp'.arg.document /\ lastOp'.arg.transport = "webrtc"
      /\ lastOp'.arg.ephemeralKey = NoKey /\ ~lastOp'.arg.fetchEphemeralKeyUrl)
       => /\ lastOp'.threw = "CredentialRequired"
          /\ realtime' = "none"
          /\ UNCHANGED <<rtcVars, heapVars, conn, outVars>>]_vars

\* The constructor has refused a WebRTC client without a credential path.
C21_Witness ==
  /\ lastOp.op = "constructor" /\ lastOp.threw = "CredentialRequired"
  /\ lastOp.arg.transport = "webrtc" /\ lastOp.arg.document
  /\ realtime = "none" /\ pc = 0

\* ----------------------------------------------------------------- C22
\* C22: constructing a client for the socket transport with a long-lived
\* key throws, with no transport created, exactly when the environment is
\* browser-like and the opt-in flag is not set; otherwise the constructor
\* succeeds and the client holds its socket transport.
C22_ApiKeyInBrowserNeedsOptIn ==
  [][(/\ lastOp'.op = "constructor"
      /\ lastOp'.arg.transport = "websocket" /\ lastOp'.arg.apiKey)
       => IF lastOp'.arg.document /\ ~lastOp'.arg.allowApiKey
          THEN /\ lastOp'.threw = "ApiKeyInBrowser"
               /\ realtime' = "none"
               /\ UNCHANGED <<rtcVars, heapVars, conn, outVars>>
          ELSE /\ lastOp'.threw = "none"
               /\ realtime' = "websocket"]_vars

\* A socket client was constructed in a browser with a long-lived key and
\* the opt-in flag.
C22_Witness ==
  /\ lastOp.op = "constructor" /\ lastOp.threw = "none"
  /\ lastOp.arg.document /\ lastOp.arg.apiKey /\ lastOp.arg.allowApiKey
  /\ realtime = "websocket"

\* ----------------------------------------------------------------- C23
\* C23: addTool throws when the definition has no name, when the name is
\* in the Tool Registry or when the handler is not callable, and an addTool
\* that throws changes neither the registry nor the Session Configuration
\* and sends nothing; removeTool of a name that is not in the registry
\* throws and leaves the registry as it is.
C23_ToolConfigurationErrors ==
  [][/\ lastOp'.op = "addTool"
          => /\ (\/ lastOp'.arg.name = ""
                 \/ lastOp'.arg.name \in tools
                 \/ ~lastOp'.arg.callable) => lastOp'.threw # "none"
             /\ lastOp'.threw # "none"
                  => UNCHANGED <<tools, sessionConfig, bus, sent>>
     /\ (lastOp'.op = "removeTool" /\ lastOp'.arg.name \notin tools)
          => /\ lastOp'.threw # "none"
             /\ tools' = tools]_vars

\* ----------------------------------------------------------------- C24
\* C24: when the state of an established peer connection (one whose
\* connect() installed the state-change handler) changes to failed or
\* disconnected, the handler throws nothing, the peer connection, its data
\* channels and its microphone track are released, one close event with
\* error true is dispatched, the client is not connected and no connect call
\* is started; a peer connection is only ever created by a connect() call.
C24_DropReleasesAndReportsOnce ==
  [][/\ \A i \in Attempts :
          (/\ lastOp'.op = "onconnectionstatechange" /\ lastOp'.id = i
           /\ lastOp'.arg.state \in {"failed", "disconnected"})
            => /\ lastOp'.threw = "none"
               /\ pcs'[i].conn = "closed"
               /\ \A j \in Attempts :
                    dcs[j].owner = i => dcs'[j].state \in {"none", "closed"}
               /\ streams'[i] # "live"
               /\ bus' = Append(bus, CloseEvent(TRUE))
               /\ ~isConnected'
               /\ conn' = conn
     /\ (pc' # pc /\ pc' # 0) => lastOp'.op \in {"connect", "connect.resume"}]_vars

\* ----------------------------------------------------------------- C25
\* C25: a peer connection has at most one Audio element playing its
\* tracks, every playing Audio element is the one this.audioElement refers
\* to, and after the transport's disconnect no Audio element plays and
\* this.audioElement is null.
C25_OnePlaybackSink ==
  /\ \A n, m \in Sinks :
       (/\ audios[n].state = "playing" /\ audios[m].state = "playing"
        /\ audios[n].pc = audios[m].pc) => n = m
  /\ \A n \in Sinks : audios[n].state = "playing" => audioElement = n
  /\ lastOp.op = "realtime.disconnect"
       => audioElement = 0 /\ \A n \in Sinks : audios[n].state # "playing"

\* ----------------------------------------------------------------- C26
\* The concatenation, in arrival order, of the deltas for the part of item
\* id among the first n dispatches, counted from the item's creation.
RECURSIVE DeltasSince(_, _, _)
DeltasSince(id, part, n) ==
  IF n = 0 THEN <<>>
  ELSE IF bus[n].name # "server.*" \/ bus[n].event.item_id # id
  THEN DeltasSince(id, part, n - 1)
  ELSE IF bus[n].event.type = "conversation.item.created" THEN <<>>
  ELSE IF bus[n].event.type \in DeltaTypes /\ DeltaPart(bus[n].event.type) = part
  THEN DeltasSince(id, part, n - 1) \o bus[n].event.delta
  ELSE DeltasSince(id, part, n - 1)

Notified(before, after, name) ==
  {i \in DOMAIN after : i > Len(before) /\ after[i].name = name}

\* C27: handling a server event dispatches conversation.updated only if
\* the Conversation Store returned an item; a conversation.item.created
\* event dispatches conversation.updated, then conversation.item.appended,
\* then (only for a completed item) conversation.item.completed; and no
\* client handler raises an exception for an event for which the store
\* returned no item.
C27_ItemNotificationsInOrder ==
  [][(lastOp'.op = "onmessage" /\ lastOp'.arg.frame.type \in StoreTypes)
       => LET frame == lastOp'.arg.frame
              r == ProcessEvent(conversation, frame)
          IN /\ Notified(bus, bus', "conversation.updated") # {} => r.item # NoItem
             /\ frame.type = "conversation.item.created"
                  => SubSeq(bus', Len(bus) + 2, Len(bus') - 2)
                       = << [on |-> "client", name |-> "conversation.updated",
                             event |-> [item |-> r.item, delta |-> r.delta]],
                            ItemNotice("conversation.item.appended", r.item) >>
                          \o (IF r.item.status = "completed"
                              THEN <<ItemNotice("conversation.item.completed", r.item)>>
                              ELSE <<>>)
             /\ r.item = NoItem => lastOp'.arg.raised = "none"]_vars

\* ----------------------------------------------------------------- C28
\* The peer connections that were created and not closed.
OpenPcs == {i \in Attempts : pcs[i].conn \notin {"none", "closed"}}

\* C28: at most one peer connection is open and unreleased, and the open
\* peer connection, the unclosed data channel and the live microphone
\* track of a connect() call are the ones the transport still refers to:
\* a later connect() has not overwritten and orphaned them.
C28_OneOpenPeerConnection ==
  /\ Cardinality(OpenPcs) <= 1
  /\ \A a \in Attempts :
       /\ a \in OpenPcs => pc = a
       /\ dcs[a].state \in {"connecting", "open"} => dc = a
       /\ streams[a] = "live" => audioStream = a

\* ----------------------------------------------------------------- C29
\* The connect() call made last, if it has rejected and no call is pending.
AbandonedCalls ==
  {a \in Attempts : /\ a = NextCall - 1
                    /\ conn[a].result \notin {"none", "true"}
                    /\ Awaited}

\* C29: once the last connect() call has rejected and until the caller
\* calls connect() again, nothing of the call is scheduled any more (no
\* poll, no timer) and the client is not connected.
C29_RejectedConnectIsOver ==
  \A a \in AbandonedCalls :
    /\ conn[a].at = "dead"
    /\ ~conn[a].timer
    /\ ~isConnected

\* ----------------------------------------------------------------- C30
\* C30: the session-created flag is set only while the transport is
\* connected, so a waitForSessionCreated() that has just returned true did
\* so on a connection that is up and has received session.created.
C30_FlagOnlyWhileConnected ==
  /\ sessionCreated => isConnected
  /\ (lastOp.op = "waitForSessionCreated" /\ waiter = "resolved")
       => sessionCreated /\ isConnected

\* ----------------------------------------------------------------- C31
\* C31: when timers keep firing, a waitForSessionCreated() that is waiting
\* while the client is not connected (it was disconnected before
\* session.created arrived) settles: it resolves or rejects.
C31_WaiterSettlesAfterDisconnect ==
  (waiter = "waiting" /\ ~isConnected) ~> (waiter \in {"resolved", "rejected"})

\* ----------------------------------------------------------------- C32
\* The invocations for the function call call_id in which the tool handler
\* was called.
HandlerRuns(call_id) ==
  {c \in ToolCalls :
     /\ calls[c].call_id = call_id
     /\ \/ calls[c].at = "handler"
        \/ calls[c].at = "done" /\ calls[c].failure \in {"none", "HandlerError"}}

\* The response requests written by the invocations for call_id.
ResponsesFor(call_id) ==
  {j \in DOMAIN sent :
     /\ sent[j].by = "createResponse"
     /\ calls[sent[j].id].call_id = call_id}

\* C32: for each function call item the tool handler is invoked at most
\* once, and at most one function_call_output and one response request are
\* written, however often the peer repeats the item's completion event.
C32_OneInvocationPerItem ==
  \A id \in ToolCalls :
    /\ Cardinality(HandlerRuns(id)) <= 1
    /\ Cardinality(OutputsFor(id)) <= 1
    /\ Cardinality(ResponsesFor(id)) <= 1

\* ----------------------------------------------------------------- C33
\* The events written by the tool invocations: function_call_output items
\* and the response requests after them, as positions in sent.
ToolWrites == {j \in DOMAIN sent : sent[j].by \in {"callTool", "createResponse"}}

\* C33: a function_call_output and the response request after it are
\* written only on the data channel on which the function call arrived,
\* also when the client was disconnected and connected again while the
\* tool handler ran.
C33_ToolReplyOnSameConnection ==
  \A j \in ToolWrites : sent[j].dc = calls[sent[j].id].dc

====
